---- MODULE Spec2Model ----
(***************************************************************************)
(* The scoped memory store of reminder-mcp: remember / recall / forget /   *)
(* promoteMemory (src/tools/memory.ts) and the embedding job pipeline       *)
(* (src/services/embedding-worker.ts, src/services/embedding.ts).           *)
(*                                                                         *)
(* Every handler is an async function: between two awaited database or      *)
(* provider calls another request may run.  A request occupies a call slot *)
(* and advances through the handler's await points (pc).                    *)
(***************************************************************************)
EXTENDS Integers, Sequences, FiniteSets, TLC

\* ------------------------------------------------------------------ bounds
MaxMem == 3        \* memory ids that can be allocated (uuid() calls)
MaxCalls == 2      \* requests in flight at the same time
MaxRecalls == 2    \* recall calls started in one behaviour
MaxScoped == 2     \* memories created in the scoped-store specification

\* --------------------------------------------------------------- constants
MAX_ATTEMPTS == 5
DedupThresholdPct == 90
DefaultLimit == 50

Null == "null"
NoId == 0          \* null in a column or argument that holds a memory id
NoVector == <<>>   \* null in the embedding column
NoQuery == <<>>    \* a missing query; the empty string is falsy as well
NoRow == [absent |-> TRUE]

Ids == 1..MaxMem
Slots == 1..MaxCalls

\* ------------------------------------------------- the directory (fixture)
\* users, team_memberships and applications are owned by the administration
\* routes; the memory tools only read them.
\* users ua, ub, uc; teams t1, t2, t3; applications a1, a2
Users == {"ua", "ub", "uc"}

\* team_memberships(user_id, team_id, role)
Membership ==
    { <<"ua", "t1", "member">>, <<"ua", "t2", "admin">>,
      <<"ub", "t1", "member">>, <<"ub", "t3", "member">>,
      <<"uc", "t1", "admin">> }

\* applications(id, created_by, team_id)
Applications ==
    { [id |-> "a1", created_by |-> "ub", team_id |-> "t1"],
      [id |-> "a2", created_by |-> "uc", team_id |-> Null] }

\* users.is_admin
AdminUsers == {"ub"}

getUserTeamIds(userId) == { m[2] : m \in { x \in Membership : x[1] = userId } }

isTeamMember(userId, teamId) == \E m \in Membership : m[1] = userId /\ m[2] = teamId

isTeamAdmin(userId, teamId) ==
    \E m \in Membership : m[1] = userId /\ m[2] = teamId /\ m[3] = "admin"

isSystemAdmin(userId) == userId \in AdminUsers

getUserAppIds(userId) ==
    { a.id : a \in { x \in Applications :
                       \/ x.created_by = userId
                       \/ (x.team_id # Null /\ isTeamMember(userId, x.team_id)) } }

\* ---------------------------------------------------------- request context
\* McpContext as built by requireApiKey / webContext; NoCtx is a direct call
\* without context.  isAdmin mirrors the user's is_admin column.
NoCtx == [scopeType |-> "none", teamId |-> Null, isAdmin |-> Null]

\* is_admin as the flag the context carries
Flag(b) == IF b THEN "true" ELSE "false"

UserCtx(u) == [scopeType |-> "user", teamId |-> Null, isAdmin |-> Flag(isSystemAdmin(u))]

TeamCtx(u, t) == [scopeType |-> "team", teamId |-> t, isAdmin |-> Flag(isSystemAdmin(u))]

\* A team-bound key is held by a member of its team: TeamCtx(u, t) is used
\* with t among the teams of u only.

\* ------------------------------------------------------- content and vectors
\* Content is text: a sequence of characters.  The stored contents and the
\* vectors the embedding provider returns for them (all of length 10):
\*   cos(Kab, Kac) = 0.90   cos(Kab, KAc) = 0.90   cos(Kab, Kbc) = 0.70
\*   cos(Kac, KAc) = 0.96   cos(Kac, Kbc) = 0.94   cos(KAc, Kbc) = 0.86
Kab == <<"a", "b">>
Kac == <<"a", "c">>
KAc == <<"A", "c">>
Kbc == <<"b", "c">>

ProviderVector(text) ==
    CASE text = Kab -> <<10, 0, 0, 0>>
      [] text = Kac -> <<9, 3, 3, 1>>
      [] text = KAc -> <<9, 3, 1, 3>>
      [] text = Kbc -> <<7, 5, 5, 1>>
      [] OTHER -> <<6, 8, 0, 0>>

RECURSIVE Dot(_, _)
Dot(v, w) == IF v = <<>> THEN 0 ELSE Head(v) * Head(w) + Dot(Tail(v), Tail(w))

Norm(v) == CHOOSE n \in 0..20 : n * n = Dot(v, v)

\* 1 - (m.embedding <=> query): cosine similarity, in hundredths
CosinePct(v, w) == (100 * Dot(v, w)) \div (Norm(v) * Norm(w))

\* similarity >= 0.9
SimilarAtLeast(v, w) == 100 * Dot(v, w) >= DedupThresholdPct * Norm(v) * Norm(w)

\* similarity > 0.9, decided exactly
SimilarAbove(v, w) == 100 * Dot(v, w) > DedupThresholdPct * Norm(v) * Norm(w)

\* SQL LIKE: % matches any run of characters, _ any one character.  SQLite's LIKE
\* is case-insensitive for ASCII letters, PostgreSQL's is case-sensitive.
Lower(ch) == CASE ch = "A" -> "a" [] ch = "B" -> "b" [] ch = "C" -> "c" [] OTHER -> ch

CharEq(a, b, ci) == IF ci THEN Lower(a) = Lower(b) ELSE a = b

RECURSIVE LikeMatch(_, _, _)
LikeMatch(pat, text, ci) ==
    IF pat = <<>> THEN text = <<>>
    ELSE IF Head(pat) = "%"
         THEN \/ LikeMatch(Tail(pat), text, ci)
              \/ (text # <<>> /\ LikeMatch(pat, Tail(text), ci))
         ELSE /\ text # <<>>
              /\ (Head(pat) = "_" \/ CharEq(Head(pat), Head(text), ci))
              /\ LikeMatch(Tail(pat), Tail(text), ci)

\* m.content LIKE '%' || query || '%'
ContentLike(text, query, ci) == LikeMatch(<<"%">> \o query \o <<"%">>, text, ci)

\* ---------------------------------------------------------------- the state
VARIABLES
    cfg,        \* config: database.type, openai.apiKey, embedding.apiUrl, redis.url, worker
                \* started; and the environment: whether calls to the provider can fail
    memories,   \* the memories table: id -> row, or NoRow
    nextId,     \* the next id uuid() hands out; ids are also the order of created_at
    calls,      \* the requests in flight: slot -> the handler's locals and its position
    jobs,       \* embedding work submitted for a memory id: Bull job or in-process promise
    nRecalls,   \* recall calls started so far
    backfill    \* the backfill script: its position, the batch it selected, its runs

vars == <<cfg, memories, nextId, calls, jobs, nRecalls, backfill>>

isPostgres == cfg.db = "postgres"

\* embeddings taken as enabled on every PostgreSQL database
isEmbeddingEnabledOnPostgres == isPostgres

\* the embedding service's isEmbeddingEnabled
isEmbeddingEnabled == isPostgres /\ cfg.embedUrl

canUseQueue == isEmbeddingEnabled /\ cfg.redis

\* the gate of the dedup block of remember
DedupEnabled == isPostgres /\ cfg.openaiKey

Rows == { id \in Ids : memories[id] # NoRow }

Idle == [op |-> "idle", pc |-> "idle"]

NoJob == [kind |-> "none", state |-> "none", attemptsMade |-> 0, lastError |-> Null]

\* the backfill script is not running
NoBackfill == [pc |-> "idle", batch |-> <<>>, i |-> 0, runs |-> 0]

\* a slot is busy until its handler has answered; the answer stays readable
InFlight(p) == calls[p].pc \notin {"idle", "done"}

\* slot p takes record r; only the latest answer is kept readable
Put(p, r) ==
    [q \in Slots |-> IF q = p THEN r
                     ELSE IF calls[q].pc = "done" THEN Idle ELSE calls[q]]

\* a request takes the lowest free slot
FreeSlot(p) == ~InFlight(p) /\ \A q \in Slots : q < p => InFlight(q)

\* --------------------------------------------------------- write permission
Valid == [valid |-> TRUE, error |-> Null]

Invalid(e) == [valid |-> FALSE, error |-> e]

AppRow(id) == { a \in Applications : a.id = id }

ctxTeamId(ctx) == ctx.teamId

\* context?.isAdmin ?? await isSystemAdmin(userId)
AdminFlag(userId, ctx) ==
    IF ctx.isAdmin # Null THEN ctx.isAdmin = "true" ELSE isSystemAdmin(userId)

\* validateWritePermission with the team case open to every user
validateWritePermissionAnyTeam(userId, scope, scopeId, ctx) ==
    CASE scope = "personal" -> Valid
      [] scope = "team" ->
            IF scopeId = Null /\ ctxTeamId(ctx) = Null
            THEN Invalid("scope_id (team ID) is required for team scope")
            ELSE Valid
      [] scope = "application" ->
            IF scopeId = Null
            THEN Invalid("scope_id (application ID) is required for application scope")
            ELSE IF AppRow(scopeId) = {} THEN Invalid("Application not found")
            ELSE LET app == CHOOSE a \in AppRow(scopeId) : TRUE
                 IN  IF app.created_by = userId THEN Valid
                     ELSE IF app.team_id # Null /\ isTeamMember(userId, app.team_id) THEN Valid
                     ELSE Invalid("Not authorized for this application")
      [] scope = "global" ->
            IF AdminFlag(userId, ctx) THEN Valid
            ELSE Invalid("Admin access required for global scope")
      [] OTHER -> Invalid("Invalid scope")

validateWritePermission(userId, scope, scopeId, ctx) ==
    CASE scope = "personal" -> Valid
      [] scope = "team" ->
            LET teamId == IF scopeId # Null THEN scopeId ELSE ctxTeamId(ctx)
            IN  IF teamId = Null
                THEN Invalid("scope_id (team ID) is required for team scope")
                ELSE IF isTeamMember(userId, teamId) THEN Valid
                ELSE Invalid("Not a member of the specified team")
      [] scope = "application" ->
            IF scopeId = Null
            THEN Invalid("scope_id (application ID) is required for application scope")
            ELSE IF AppRow(scopeId) = {} THEN Invalid("Application not found")
            ELSE LET app == CHOOSE a \in AppRow(scopeId) : TRUE
                 IN  IF app.created_by = userId THEN Valid
                     ELSE IF app.team_id # Null /\ isTeamMember(userId, app.team_id) THEN Valid
                     ELSE Invalid("Not authorized for this application")
      [] scope = "global" ->
            IF AdminFlag(userId, ctx) THEN Valid
            ELSE Invalid("Admin access required for global scope")
      [] OTHER -> Invalid("Invalid scope")

\* ------------------------------------------------------------------ remember
\* the scope resolution with the team key's default taking precedence
EffectiveScopeKeyFirst(reqScope, reqScopeId, ctx) ==
    IF ctx.scopeType = "team"
    THEN [scope |-> "team",
          scopeId |-> IF reqScopeId # Null THEN reqScopeId ELSE ctx.teamId]
    ELSE [scope |-> IF reqScope # Null THEN reqScope ELSE "personal",
          scopeId |-> reqScopeId]

\* lines 156-162: the requested scope, else team for a team key, else personal
EffectiveScope(reqScope, reqScopeId, ctx) ==
    IF ctx.scopeType = "team" /\ reqScope = Null
    THEN [scope |-> "team",
          scopeId |-> IF reqScopeId # Null THEN reqScopeId ELSE ctx.teamId]
    ELSE [scope |-> IF reqScope # Null THEN reqScope ELSE "personal",
          scopeId |-> reqScopeId]

\* lines 171-173: team scope takes the key's team when no scope_id was given
ResolvedScopeId(scope, scopeId, ctx) ==
    IF scope = "team" /\ scopeId = Null /\ ctx.teamId # Null THEN ctx.teamId ELSE scopeId

\* lines 189-192: .where('id', supersedes).whereNull('superseded_by').first()
SupersedesTarget(supersedes) ==
    supersedes # NoId /\ supersedes \in Rows /\ memories[supersedes].superseded_by = NoId

AfterSupersede == IF DedupEnabled THEN "dedup" ELSE "insert"

RememberStart(p, u, ctx, content, tags, reqScope, reqScopeId, supersedes, classification) ==
    LET eff == EffectiveScope(reqScope, reqScopeId, ctx)
        perm == validateWritePermission(u, eff.scope, eff.scopeId, ctx)
        input == [user |-> u, ctx |-> ctx, content |-> content, tags |-> tags,
                  reqScope |-> reqScope, reqScopeId |-> reqScopeId,
                  supersedes |-> supersedes, classification |-> classification]
    IN  /\ FreeSlot(p)
        /\ IF ~perm.valid
           THEN /\ calls' = Put(p, [op |-> "remember", pc |-> "done", input |-> input,
                         result |-> "error", error |-> perm.error,
                         logged |-> FALSE])
                /\ UNCHANGED nextId
           ELSE /\ nextId <= MaxMem
                /\ nextId' = nextId + 1
                /\ calls' = Put(p, [op |-> "remember",
                         pc |-> IF SupersedesTarget(supersedes) THEN "supersede"
                                ELSE AfterSupersede,
                         input |-> input,
                         id |-> nextId,
                         scope |-> eff.scope,
                         scopeId |-> ResolvedScopeId(eff.scope, eff.scopeId, ctx),
                         mergedFrom |-> IF SupersedesTarget(supersedes) THEN supersedes
                                        ELSE NoId,
                         precomputed |-> FALSE,
                         dedupRan |-> FALSE])
        /\ UNCHANGED <<cfg, memories, jobs, nRecalls, backfill>>

\* .where('id', target).update({ superseded_by: id }): no row, no change
SetSupersededBy(target, id) ==
    IF target \in Rows
    THEN [memories EXCEPT ![target].superseded_by = id]
    ELSE memories

\* lines 195-197
RememberSupersede(p) ==
    /\ calls[p].op = "remember" /\ calls[p].pc = "supersede"
    /\ memories' = SetSupersededBy(calls[p].mergedFrom, calls[p].id)
    /\ calls' = Put(p, [calls[p] EXCEPT !.pc = AfterSupersede])
    /\ UNCHANGED <<cfg, nextId, jobs, nRecalls, backfill>>

\* ------------------------------------------------------- embedding provider
ProviderErrors == {"Embedding API error (429)", "Embedding API error (500)"}

\* generateEmbedding: throws without an API URL, else the provider answers
\* with a vector or with an HTTP error
GenerateOutcomes ==
    IF ~cfg.embedUrl THEN {"EMBEDDING_API_URL is not configured"}
    ELSE IF cfg.providerFails THEN {"ok"} \cup ProviderErrors
    ELSE {"ok"}

\* ------------------------------------------------------------ dedup on write
\* lines 218-226: the scope filter of the dedup query
DedupScope(m, u, scope, scopeId) ==
    IF scope = "personal" THEN m.scope = "personal" /\ m.user_id = u
    ELSE IF scope = "team" \/ scope = "application"
         THEN m.scope = scope /\ m.scope_id = scopeId
    ELSE m.scope = "global"

\* lines 234-237: WHERE scope AND embedding IS NOT NULL AND superseded_by IS NULL
DedupCandidates(u, scope, scopeId) ==
    { id \in Rows : /\ DedupScope(memories[id], u, scope, scopeId)
                    /\ memories[id].embedding # NoVector
                    /\ memories[id].superseded_by = NoId }

\* cos(a, q) >= cos(b, q)
SimGE(a, b, q) == Dot(a, q) * Norm(b) >= Dot(b, q) * Norm(a)

\* the dedup query without its ORDER BY: any candidate row
AnyCandidate(cands, q) == cands

\* ORDER BY similarity DESC LIMIT 1: any row of the highest similarity
TopMatches(cands, q) ==
    { id \in cands :
        \A o \in cands : SimGE(memories[id].embedding, memories[o].embedding, q) }

\* lines 205-257.  A provider failure or a failing dedup query is caught and
\* the insert goes on; the embedding computed before the query is kept.
RememberDedup(p) ==
    /\ calls[p].op = "remember" /\ calls[p].pc = "dedup"
    /\ \E outcome \in GenerateOutcomes, queryFails \in BOOLEAN :
         LET c == calls[p]
             q == ProviderVector(c.input.content)
             cands == DedupCandidates(c.input.user, c.scope, c.scopeId)
         IN  IF outcome # "ok"
             THEN calls' = Put(p, [calls[p] EXCEPT !.pc = "insert"])
             ELSE IF c.mergedFrom # NoId \/ queryFails
             THEN calls' = Put(p, [calls[p] EXCEPT !.pc = "insert", !.precomputed = TRUE])
             ELSE IF cands = {}
             THEN calls' = Put(p, [calls[p] EXCEPT !.pc = "insert", !.precomputed = TRUE,
                                                   !.dedupRan = TRUE])
             ELSE \E top \in TopMatches(cands, q) :
                    IF SimilarAbove(memories[top].embedding, q)
                    THEN calls' = Put(p, [calls[p] EXCEPT !.pc = "dedup_update",
                                                          !.precomputed = TRUE,
                                                          !.dedupRan = TRUE,
                                                          !.mergedFrom = top])
                    ELSE calls' = Put(p, [calls[p] EXCEPT !.pc = "insert",
                                                          !.precomputed = TRUE,
                                                          !.dedupRan = TRUE])
    /\ UNCHANGED <<cfg, memories, nextId, jobs, nRecalls, backfill>>

\* lines 247-250
RememberDedupUpdate(p) ==
    /\ calls[p].op = "remember" /\ calls[p].pc = "dedup_update"
    /\ memories' = SetSupersededBy(calls[p].mergedFrom, calls[p].id)
    /\ calls' = Put(p, [calls[p] EXCEPT !.pc = "insert"])
    /\ UNCHANGED <<cfg, nextId, jobs, nRecalls, backfill>>

\* lines 259-278: the row remember inserts
NewMemory(c) ==
    [id |-> c.id,
     user_id |-> c.input.user,
     content |-> c.input.content,
     tags |-> c.input.tags,
     recalled_count |-> 0,
     embedding_status |-> IF c.precomputed THEN "completed"
                          ELSE IF isPostgres THEN "pending" ELSE Null,
     embedding_error |-> Null,
     embedding |-> IF c.precomputed /\ isPostgres THEN ProviderVector(c.input.content)
                   ELSE NoVector,
     scope |-> c.scope,
     scope_id |-> c.scopeId,
     author_id |-> c.input.user,
     promoted_from |-> NoId,
     superseded_by |-> NoId,
     retrieval_count |-> 0,
     classification |-> c.input.classification,
     created_at |-> c.id]

QueueUnavailable == "Embedding queue unavailable (requires REDIS_URL and OPENAI_API_KEY)"

MarkFailed(m, e) == [m EXCEPT !.embedding_status = "failed", !.embedding_error = e]

NewJob(kind) == [kind |-> kind, state |-> "waiting", attemptsMade |-> 0, lastError |-> Null]

\* lines 307-350: the activity record, then the answer
Finished(c, m) ==
    [c EXCEPT !.pc = "done"]
       @@ [result |-> "success", memory |-> m, error |-> Null, logged |-> TRUE]

\* the rejection leaves remember before the activity record is written
Threw(c) ==
    [c EXCEPT !.pc = "done"]
       @@ [result |-> "exception", error |-> "queue.add rejected", logged |-> FALSE]

\* lines 259-328: insert, then submit embedding work unless the vector is there.
\* enqueueEmbeddingJob answers false when embeddings are disabled; awaits
\* queue.add when a Redis queue is configured (the call can reject, and nothing
\* catches it); otherwise starts processMemoryEmbedding without awaiting it.
RememberInsert(p) ==
    /\ calls[p].op = "remember" /\ calls[p].pc = "insert"
    /\ LET c == calls[p]
           m == NewMemory(c)
       IN  IF ~(isPostgres /\ ~c.precomputed)
           THEN /\ memories' = [memories EXCEPT ![c.id] = m]
                /\ calls' = Put(p, Finished(c, m))
                /\ UNCHANGED jobs
           ELSE IF ~isEmbeddingEnabled
           THEN /\ memories' = [memories EXCEPT ![c.id] = MarkFailed(m, QueueUnavailable)]
                /\ calls' = Put(p, Finished(c, MarkFailed(m, QueueUnavailable)))
                /\ UNCHANGED jobs
           ELSE IF canUseQueue
           THEN \E addRejects \in BOOLEAN :
                  /\ memories' = [memories EXCEPT ![c.id] = m]
                  /\ IF addRejects
                     THEN /\ calls' = Put(p, Threw(c))
                          /\ UNCHANGED jobs
                     ELSE /\ calls' = Put(p, Finished(c, m))
                          /\ jobs' = [jobs EXCEPT ![c.id] = NewJob("queue")]
           ELSE /\ memories' = [memories EXCEPT ![c.id] = m]
                /\ calls' = Put(p, Finished(c, m))
                /\ jobs' = [jobs EXCEPT ![c.id] = NewJob("inproc")]
    /\ UNCHANGED <<cfg, nextId, nRecalls, backfill>>

\* -------------------------------------------------------------------- recall
\* buildScopeFilter with the team clause not restricted to the caller's teams
buildScopeFilterAnyTeam(m, userId, teamIds, appIds, scopeFilter, scopeIdFilter) ==
    IF scopeFilter # Null
    THEN m.scope = scopeFilter
    ELSE \/ (m.scope = "personal" /\ m.user_id = userId)
         \/ m.scope = "team"
         \/ (appIds # {} /\ m.scope = "application" /\ m.scope_id \in appIds)
         \/ m.scope = "global"

\* buildScopeFilter: the WHERE clause as a predicate on a row
buildScopeFilter(m, userId, teamIds, appIds, scopeFilter, scopeIdFilter) ==
    IF scopeFilter # Null
    THEN CASE scopeFilter = "personal" -> m.scope = "personal" /\ m.user_id = userId
           [] scopeFilter = "team" /\ scopeIdFilter # Null ->
                 m.scope = "team" /\ m.scope_id = scopeIdFilter
           [] scopeFilter = "application" /\ scopeIdFilter # Null ->
                 m.scope = "application" /\ m.scope_id = scopeIdFilter
           [] scopeFilter = "global" -> m.scope = "global"
           [] scopeFilter = "team" /\ scopeIdFilter = Null /\ teamIds # {} ->
                 m.scope = "team" /\ m.scope_id \in teamIds
           [] scopeFilter = "application" /\ scopeIdFilter = Null /\ appIds # {} ->
                 m.scope = "application" /\ m.scope_id \in appIds
           [] OTHER -> FALSE
    ELSE \/ (m.scope = "personal" /\ m.user_id = userId)
         \/ (teamIds # {} /\ m.scope = "team" /\ m.scope_id \in teamIds)
         \/ (appIds # {} /\ m.scope = "application" /\ m.scope_id \in appIds)
         \/ m.scope = "global"

\* lines 551-557: a team key sees its own team only
RecallTeamIds(userId, ctx) ==
    IF ctx.scopeType = "team" /\ ctx.teamId # Null THEN {ctx.teamId}
    ELSE getUserTeamIds(userId)

\* the queries without their superseded_by condition
SupersededToo(m) == TRUE

\* AND m.superseded_by IS NULL
NotSuperseded(m) == m.superseded_by = NoId

\* AND m.embedding_status = ?   (only when the filter is given)
StatusFilter(m, status) == status = Null \/ m.embedding_status = status

\* the rows every query of recall starts from
Visible(input, ctx) ==
    { id \in Rows :
        /\ buildScopeFilter(memories[id], input.user, RecallTeamIds(input.user, ctx),
                            getUserAppIds(input.user), input.scope, input.scopeId)
        /\ NotSuperseded(memories[id])
        /\ StatusFilter(memories[id], input.status) }

\* ts_rank(to_tsvector(content), plainto_tsquery(query)) for one-word texts,
\* in 1/10000: a matching lexeme ranks 0.0608, no match 0
TsRankMatch == 608

KeywordRank(text, query) ==
    IF Len(text) = Len(query) /\ \A k \in 1..Len(text) : Lower(text[k]) = Lower(query[k])
    THEN TsRankMatch ELSE 0

\* hybrid_score in 1/100000: 0.7 * cosine + 0.3 * ts_rank; no vector, no cosine term
HybridScore(m, query) ==
    (IF m.embedding # NoVector
     THEN 700 * CosinePct(m.embedding, ProviderVector(query)) ELSE 0)
    + 3 * KeywordRank(m.content, query)

\* ORDER BY key DESC as a sequence; the keys are distinct
OrderDesc(S, key) ==
    CHOOSE seq \in [1..Cardinality(S) -> S] :
        \A i, j \in 1..Cardinality(S) : i < j => key[seq[i]] > key[seq[j]]

Take(seq, limit) == SubSeq(seq, 1, IF limit < Len(seq) THEN limit ELSE Len(seq))

\* ORDER BY m.created_at DESC LIMIT ?
ByRecency(S, limit) == Take(OrderDesc(S, [id \in S |-> memories[id].created_at]), limit)

\* ORDER BY hybrid_score DESC, m.created_at DESC LIMIT ?
ByHybridScore(S, query, limit) ==
    Take(OrderDesc(S, [id \in S |-> HybridScore(memories[id], query) * (MaxMem + 1)
                                     + memories[id].created_at]), limit)

\* the SQLite path, and recallPostgresHybrid's catch block
KeywordRows(input, ctx, ci) ==
    ByRecency({ id \in Visible(input, ctx) :
                  input.query = NoQuery \/ ContentLike(memories[id].content, input.query, ci) },
              input.limit)

\* a hybrid query with AND m.embedding IS NOT NULL
PostgresRowsEmbeddedOnly(input, ctx, outcome) ==
    IF input.query = NoQuery THEN ByRecency(Visible(input, ctx), input.limit)
    ELSE IF outcome = "ok"
         THEN ByHybridScore({ id \in Visible(input, ctx) : memories[id].embedding # NoVector },
                            input.query, input.limit)
    ELSE KeywordRows(input, ctx, FALSE)

\* recallPostgresHybrid: no query, hybrid ranking, or the keyword fallback when
\* the query embedding (or the hybrid query) fails
PostgresRows(input, ctx, outcome) ==
    IF input.query = NoQuery THEN ByRecency(Visible(input, ctx), input.limit)
    ELSE IF outcome = "ok" THEN ByHybridScore(Visible(input, ctx), input.query, input.limit)
    ELSE KeywordRows(input, ctx, FALSE)

\* lines 602-606: keep the rows that carry one of the requested tags
TagFilter(ids, tags) ==
    IF tags = {} THEN ids
    ELSE SelectSeq(ids, LAMBDA id : memories[id].tags \cap tags # {})

Snapshot(ids) == [i \in 1..Len(ids) |-> memories[ids[i]]]

\* lines 547-606: the select and the in-memory tag filter
RecallStart(p, u, ctx, query, tags, status, limit, scope, scopeId) ==
    /\ FreeSlot(p)
    /\ nRecalls < MaxRecalls
    /\ nRecalls' = nRecalls + 1
    /\ LET input == [user |-> u, query |-> query, tags |-> tags, status |-> status,
                     limit |-> limit, scope |-> scope, scopeId |-> scopeId]
       IN  \E outcome \in (IF isPostgres /\ query # NoQuery THEN GenerateOutcomes ELSE {"ok"}) :
             LET ids == IF isPostgres THEN PostgresRows(input, ctx, outcome)
                        ELSE KeywordRows(input, ctx, TRUE)
                 rows == Snapshot(TagFilter(ids, tags))
                 mode == IF query = NoQuery THEN "list"
                         ELSE IF isPostgres /\ outcome = "ok" THEN "hybrid" ELSE "keyword"
             IN  calls' = Put(p, [op |-> "recall",
                      pc |-> IF rows = <<>> THEN "done" ELSE "update",
                      input |-> input, ctx |-> ctx, mode |-> mode,
                      rows |-> rows, result |-> "success", returned |-> rows])
    /\ UNCHANGED <<cfg, memories, nextId, jobs, backfill>>

RowIds(rows) == { rows[i].id : i \in 1..Len(rows) }

\* the counters raised by two
BumpTwice(m) == [m EXCEPT !.recalled_count = @ + 2, !.retrieval_count = @ + 2]

\* recalled_count + 1, retrieval_count + 1
Bump(m) == [m EXCEPT !.recalled_count = @ + 1, !.retrieval_count = @ + 1]

\* lines 608-642: recalled_count + 1 on the returned ids, and on the local copies
RecallUpdate(p) ==
    /\ calls[p].op = "recall" /\ calls[p].pc = "update"
    /\ memories' = [id \in Ids |->
                      IF id \in Rows /\ id \in RowIds(calls[p].rows)
                      THEN Bump(memories[id]) ELSE memories[id]]
    /\ calls' = Put(p, [calls[p] EXCEPT !.pc = "done",
                                         !.returned = [i \in 1..Len(calls[p].rows) |->
                                                         Bump(calls[p].rows[i])]])
    /\ UNCHANGED <<cfg, nextId, jobs, nRecalls, backfill>>

\* -------------------------------------------------------------------- forget
\* the permission check with any team member allowed to delete a team memory
ForgetAuthorizedAnyMember(m, userId, ctx) ==
    CASE m.scope = "personal" -> m.user_id = userId
      [] m.scope = "team" ->
            \/ m.author_id = userId
            \/ (m.scope_id # Null /\ isTeamMember(userId, m.scope_id))
      [] m.scope = "application" ->
            \/ m.author_id = userId
            \/ \E app \in AppRow(m.scope_id) :
                 app.team_id # Null /\ isTeamAdmin(userId, app.team_id)
      [] m.scope = "global" -> AdminFlag(userId, ctx)
      [] OTHER -> FALSE

\* lines 661-691: who may delete a memory of each scope
ForgetAuthorized(m, userId, ctx) ==
    CASE m.scope = "personal" -> m.user_id = userId
      [] m.scope = "team" ->
            \/ m.author_id = userId
            \/ (m.scope_id # Null /\ isTeamAdmin(userId, m.scope_id))
      [] m.scope = "application" ->
            \/ m.author_id = userId
            \/ \E app \in AppRow(m.scope_id) :
                 app.team_id # Null /\ isTeamAdmin(userId, app.team_id)
      [] m.scope = "global" -> AdminFlag(userId, ctx)
      [] OTHER -> FALSE

\* an answer whose call wrote its activity record whatever the result
AnswerLogged(op, input, result, error) ==
    [op |-> op, pc |-> "done", input |-> input, result |-> result, error |-> error,
     logged |-> TRUE]

\* the answer of forget and promoteMemory; logged: the call inserted its
\* activity record, which both do right before returning success and on no
\* path that returns an error
Answer(op, input, result, error) ==
    [op |-> op, pc |-> "done", input |-> input, result |-> result, error |-> error,
     logged |-> (result = "success")]

\* forget: read the row, check the permission of its scope, delete it
Forget(p, u, ctx, id) ==
    /\ FreeSlot(p)
    /\ LET input == [user |-> u, ctx |-> ctx, memory_id |-> id,
                     row |-> memories[id]]
       IN  IF id \notin Rows
           THEN /\ calls' = Put(p, Answer("forget", input, "error", "Memory not found"))
                /\ UNCHANGED memories
           ELSE IF ~ForgetAuthorized(memories[id], u, ctx)
           THEN /\ calls' = Put(p, Answer("forget", input, "error",
                                      "Not authorized to delete this memory"))
                /\ UNCHANGED memories
           ELSE /\ memories' = [memories EXCEPT ![id] = NoRow]
                /\ calls' = Put(p, Answer("forget", input, "success", Null))
    /\ UNCHANGED <<cfg, nextId, jobs, nRecalls, backfill>>

\* ------------------------------------------------------------- promoteMemory
\* the copy without the source's classification
PromotedMemoryUnclassified(source, id, u, targetScope, targetScopeId) ==
    [id |-> id,
     user_id |-> IF targetScope = "personal" THEN u ELSE source.user_id,
     content |-> source.content,
     tags |-> source.tags,
     recalled_count |-> 0,
     embedding_status |-> source.embedding_status,
     embedding_error |-> source.embedding_error,
     embedding |-> IF isPostgres THEN source.embedding ELSE NoVector,
     scope |-> targetScope,
     scope_id |-> targetScopeId,
     author_id |-> u,
     promoted_from |-> source.id,
     superseded_by |-> NoId,
     retrieval_count |-> 0,
     classification |-> Null,
     created_at |-> id]

\* lines 735-758: the copy inserted into the target scope
PromotedMemory(source, id, u, targetScope, targetScopeId) ==
    [id |-> id,
     user_id |-> IF targetScope = "personal" THEN u ELSE source.user_id,
     content |-> source.content,
     tags |-> source.tags,
     recalled_count |-> 0,
     embedding_status |-> source.embedding_status,
     embedding_error |-> source.embedding_error,
     embedding |-> IF isPostgres THEN source.embedding ELSE NoVector,
     scope |-> targetScope,
     scope_id |-> targetScopeId,
     author_id |-> u,
     promoted_from |-> source.id,
     superseded_by |-> NoId,
     retrieval_count |-> 0,
     classification |-> source.classification,
     created_at |-> id]

\* promoteMemory(input): the tool handler holds the key's context and does not
\* pass it on, so the target scope is validated without one
PromoteMemory(p, u, ctx, id, targetScope, targetScopeId) ==
    /\ FreeSlot(p)
    /\ LET input == [user |-> u, ctx |-> ctx, memory_id |-> id,
                     target_scope |-> targetScope, target_scope_id |-> targetScopeId]
           perm == validateWritePermission(u, targetScope, targetScopeId, NoCtx)
       IN  IF id \notin Rows
           THEN /\ calls' = Put(p, Answer("promote", input, "error", "Memory not found"))
                /\ UNCHANGED <<memories, nextId>>
           ELSE IF ~perm.valid
           THEN /\ calls' = Put(p, Answer("promote", input, "error", perm.error))
                /\ UNCHANGED <<memories, nextId>>
           ELSE /\ nextId <= MaxMem
                /\ nextId' = nextId + 1
                /\ memories' = [memories EXCEPT ![nextId] =
                      PromotedMemory(memories[id], nextId, u, targetScope, targetScopeId)]
                /\ calls' = Put(p, Answer("promote", input, "success", Null)
                        @@ [memory |-> PromotedMemory(memories[id], nextId, u,
                                                      targetScope, targetScopeId)])
    /\ UNCHANGED <<cfg, jobs, nRecalls, backfill>>

\* ------------------------------------------------------------ embedding jobs
\* an update that also stamps the row's created_at
EmbeddedRestamped(m) ==
    [m EXCEPT !.embedding = ProviderVector(m.content),
              !.embedding_status = "completed",
              !.embedding_error = Null,
              !.created_at = @ + 1]

\* processMemoryEmbedding's update: the vector, completed, no error
Embedded(m) ==
    [m EXCEPT !.embedding = ProviderVector(m.content),
              !.embedding_status = "completed",
              !.embedding_error = Null]

\* .where('id', memoryId).update(...): no row, no change
UpdateRow(id, m) ==
    IF id \in Rows THEN [memories EXCEPT ![id] = m] ELSE memories

\* the 'failed' handler writing the status on any failed attempt
AnyFailure(attemptsMade) == attemptsMade >= 1

\* the 'failed' handler writes the status once Bull has used up the attempts
FinalFailure(attemptsMade) == attemptsMade >= MAX_ATTEMPTS

\* A Bull job (attempts: MAX_ATTEMPTS, exponential backoff) run by the worker's
\* processor; each failed attempt raises 'failed' with job.attemptsMade counted.
QueueAttempt(id) ==
    /\ cfg.worker
    /\ jobs[id].kind = "queue" /\ jobs[id].state = "waiting"
    /\ \E outcome \in GenerateOutcomes :
         IF outcome = "ok"
         THEN /\ memories' = UpdateRow(id, Embedded(memories[id]))
              /\ jobs' = [jobs EXCEPT ![id].state = "completed"]
         ELSE LET made == jobs[id].attemptsMade + 1
              IN  /\ jobs' = [jobs EXCEPT ![id].attemptsMade = made,
                                          ![id].lastError = outcome,
                                          ![id].state = IF made >= MAX_ATTEMPTS
                                                        THEN "failed" ELSE "waiting"]
                  /\ memories' = IF FinalFailure(made)
                                 THEN UpdateRow(id, MarkFailed(memories[id], outcome))
                                 ELSE memories
    /\ UNCHANGED <<cfg, nextId, calls, nRecalls, backfill>>

\* enqueueEmbeddingJob without Redis: processMemoryEmbedding(...).catch(...)
InProcessAttempt(id) ==
    /\ jobs[id].kind = "inproc" /\ jobs[id].state = "waiting"
    /\ \E outcome \in GenerateOutcomes :
         IF outcome = "ok"
         THEN /\ memories' = UpdateRow(id, Embedded(memories[id]))
              /\ jobs' = [jobs EXCEPT ![id].state = "completed"]
         ELSE /\ memories' = UpdateRow(id, MarkFailed(memories[id], outcome))
              /\ jobs' = [jobs EXCEPT ![id].state = "failed",
                                      ![id].attemptsMade = 1,
                                      ![id].lastError = outcome]
    /\ UNCHANGED <<cfg, nextId, calls, nRecalls, backfill>>

\* ------------------------------------------------------------------ backfill
BATCH_SIZE == 100

MaxBackfillRuns == 1   \* runs of the backfill script in one behaviour

\* .whereNull('embedding')
LackingEmbedding == { id \in Rows : memories[id].embedding = NoVector }

\* ORDER BY key ASC as a sequence; the keys are distinct
OrderAsc(S, key) ==
    CHOOSE seq \in [1..Cardinality(S) -> S] :
        \A i, j \in 1..Cardinality(S) : i < j => key[seq[i]] < key[seq[j]]

\* lines 21-25: select id, content of the rows without a vector, oldest
\* first, one batch
BackfillRows ==
    LET ids == Take(OrderAsc(LackingEmbedding,
                             [id \in LackingEmbedding |-> memories[id].created_at]),
                    BATCH_SIZE)
    IN  [k \in 1..Len(ids) |-> [id |-> ids[k], content |-> memories[ids[k]].content]]

\* processMemoryEmbedding(memoryId, content): the vector of the content handed in
EmbeddedFrom(m, content) ==
    [m EXCEPT !.embedding = ProviderVector(content),
              !.embedding_status = "completed",
              !.embedding_error = Null]

\* line 38: update({ embedding_status: 'pending', embedding_error: null })
MarkPending(m) == [m EXCEPT !.embedding_status = "pending", !.embedding_error = Null]

\* lines 9-17: the script starts; it does nothing unless the database is PostgreSQL
BackfillStart ==
    /\ backfill.pc = "idle"
    /\ backfill.runs < MaxBackfillRuns
    /\ backfill' = [backfill EXCEPT !.pc = IF isPostgres THEN "select" ELSE "idle",
                                    !.runs = @ + 1]
    /\ UNCHANGED <<cfg, memories, nextId, calls, jobs, nRecalls>>

\* lines 20-29: read the next batch; the run ends when no row lacks a vector
BackfillSelect ==
    /\ backfill.pc = "select"
    /\ backfill' = IF BackfillRows = <<>>
                   THEN [backfill EXCEPT !.pc = "idle", !.batch = <<>>, !.i = 0]
                   ELSE [backfill EXCEPT !.pc = "mark", !.batch = BackfillRows, !.i = 1]
    /\ UNCHANGED <<cfg, memories, nextId, calls, jobs, nRecalls>>

\* line 38: the row of the batch is set to pending
BackfillMark ==
    /\ backfill.pc = "mark"
    /\ LET id == backfill.batch[backfill.i].id
       IN  memories' = UpdateRow(id, MarkPending(memories[id]))
    /\ backfill' = [backfill EXCEPT !.pc = "embed"]
    /\ UNCHANGED <<cfg, nextId, calls, jobs, nRecalls>>

\* after the last row of the batch the loop selects again
BackfillNext ==
    IF backfill.i < Len(backfill.batch)
    THEN [backfill EXCEPT !.pc = "mark", !.i = @ + 1]
    ELSE [backfill EXCEPT !.pc = "select"]

\* lines 39-49: processMemoryEmbedding, or the catch block recording the error
BackfillEmbed ==
    /\ backfill.pc = "embed"
    /\ LET row == backfill.batch[backfill.i]
       IN  \E outcome \in GenerateOutcomes :
             memories' = IF outcome = "ok"
                         THEN UpdateRow(row.id, EmbeddedFrom(memories[row.id], row.content))
                         ELSE UpdateRow(row.id, MarkFailed(memories[row.id], outcome))
    /\ backfill' = BackfillNext
    /\ UNCHANGED <<cfg, nextId, calls, jobs, nRecalls>>

\* ------------------------------------------------------------ specifications
Start(c) ==
    /\ cfg = c
    /\ memories = [id \in Ids |-> NoRow]
    /\ nextId = 1
    /\ calls = [p \in Slots |-> Idle]
    /\ jobs = [id \in Ids |-> NoJob]
    /\ nRecalls = 0
    /\ backfill = NoBackfill

Sqlite == [db |-> "sqlite", openaiKey |-> FALSE, embedUrl |-> FALSE, redis |-> FALSE,
           worker |-> FALSE, providerFails |-> FALSE]

\* ---- Spec: the scoped store on the basic backend, one request at a time.
\* The write requests: <<user, context, scope, scope_id>>
ScopedWrites ==
    { <<"ua", UserCtx("ua"), Null, Null>>,
      <<"ua", UserCtx("ua"), "personal", "t1">>,
      <<"ua", UserCtx("ua"), "team", "t1">>,
      <<"ua", TeamCtx("ua", "t2"), Null, Null>>,
      <<"ua", UserCtx("ua"), "team", Null>>,
      <<"ua", UserCtx("ua"), "global", Null>>,
      <<"ub", UserCtx("ub"), Null, Null>>,
      <<"ub", UserCtx("ub"), "team", "t3">>,
      <<"ub", UserCtx("ub"), "application", "a1">>,
      <<"ub", NoCtx, "global", Null>>,
      <<"uc", UserCtx("uc"), "application", "a2">>,
      <<"uc", UserCtx("uc"), "team", "t3">> }

Init == Start(Sqlite)

RememberScoped ==
    \E w \in ScopedWrites :
        /\ nextId <= MaxScoped
        /\ RememberStart(1, w[1], w[2], Kab, {}, w[3], w[4], NoId, Null)

RecallScoped ==
    \E c \in {<<"ua", UserCtx("ua")>>, <<"ua", TeamCtx("ua", "t1")>>, <<"ub", UserCtx("ub")>>} :
    \E scope \in {Null, "team", "application"} : \E scopeId \in {Null, "t3"} :
        RecallStart(1, c[1], c[2], NoQuery, {}, Null, DefaultLimit, scope, scopeId)

ForgetScoped ==
    \E u \in Users : \E ctx \in {UserCtx(u)} \cup (IF u = "ub" THEN {NoCtx} ELSE {}) :
    \E id \in Ids :
        Forget(1, u, ctx, id)

PromoteScoped ==
    \E u \in {"ua", "ub"} : \E id \in Ids :
    \E target \in {<<"personal", Null>>, <<"personal", "t1">>, <<"team", "t1">>,
                   <<"application", "a1">>, <<"global", Null>>} :
        /\ nextId <= MaxScoped
        /\ PromoteMemory(1, u, UserCtx(u), id, target[1], target[2])

Next ==
    \/ RememberScoped
    \/ RememberInsert(1)
    \/ RecallScoped
    \/ RecallUpdate(1)
    \/ ForgetScoped
    \/ PromoteScoped

Spec == Init /\ [][Next]_vars

\* ------------------------------------------------------------ claims on Spec
Done(p, op) == calls[p].op = op /\ calls[p].pc = "done"

\* C3: every stored memory has scope_id non-null if and only if its scope is
\* team or application.
C3_ScopeIdIffShared ==
    \A id \in Rows :
        (memories[id].scope_id # Null) <=> (memories[id].scope \in {"team", "application"})

\* what a caller may see without a scope filter, as the claim words it
MayRead(m, u) ==
    \/ (m.scope = "personal" /\ m.user_id = u)
    \/ (m.scope = "team" /\ isTeamMember(u, m.scope_id))
    \/ (m.scope = "application" /\ m.scope_id \in getUserAppIds(u))
    \/ m.scope = "global"

MayForget(m, u) ==
    \/ (m.scope = "personal" /\ m.user_id = u)
    \/ (m.scope = "team" /\ (m.author_id = u \/ isTeamAdmin(u, m.scope_id)))
    \/ (m.scope = "application" /\
          (m.author_id = u \/ \E a \in Applications :
                                 a.id = m.scope_id /\ a.team_id # Null
                                 /\ isTeamAdmin(u, a.team_id)))
    \/ (m.scope = "global" /\ isSystemAdmin(u))

\* C5: forget on an existing memory deletes it if and only if the actor owns a
\* personal memory, is the author or an admin of the scope's team of a team or
\* application memory, or is a system administrator for a global memory;
\* otherwise the permission error is returned and the memory stays.
C5_ForgetIffAuthorized ==
    \A p \in Slots :
        (Done(p, "forget") /\ calls[p].input.row # NoRow) =>
            LET c == calls[p]
                allowed == MayForget(c.input.row, c.input.user)
            IN  /\ (c.result = "success") <=> allowed
                /\ (memories[c.input.memory_id] = NoRow) <=> allowed
                /\ ~allowed => /\ c.error = "Not authorized to delete this memory"
                               /\ memories[c.input.memory_id] = c.input.row

\* ub, a plain member of t1, is refused ua's t1 memory
C5_Witness ==
    /\ Done(1, "forget") /\ calls[1].input.user = "ub"
    /\ calls[1].input.row # NoRow
    /\ calls[1].input.row.scope = "team" /\ calls[1].input.row.scope_id = "t1"
    /\ calls[1].input.row.author_id = "ua"
    /\ calls[1].result = "error"

\* the admin of t1 deletes a t1 memory someone else wrote
C5_AdminDeletes ==
    /\ Done(1, "forget") /\ calls[1].input.user = "uc"
    /\ calls[1].input.row # NoRow
    /\ calls[1].input.row.scope = "team" /\ calls[1].input.row.author_id = "ua"
    /\ calls[1].result = "success"

\* ---- SpecSeq: one request at a time on either backend, with explicit and
\* automatic supersession, queries, tag and status filters.
MaxSeq == 3        \* memories created in the sequential specification
MaxSeqRecalls == 1 \* recall calls in the sequential specification

\* PostgreSQL with pgvector, the provider configured and answering
Postgres == [db |-> "postgres", openaiKey |-> TRUE, embedUrl |-> TRUE, redis |-> FALSE,
             worker |-> FALSE, providerFails |-> FALSE]

\* PostgreSQL with no embedding provider configured
PostgresNoKey == [db |-> "postgres", openaiKey |-> FALSE, embedUrl |-> FALSE,
                  redis |-> FALSE, worker |-> FALSE, providerFails |-> FALSE]

\* The write requests: <<user, content, tags, supersedes, classification>>
SeqWrites ==
    { <<"ua", Kac, {"x"}, NoId, "tactical">>,
      <<"ua", KAc, {}, NoId, Null>>,
      <<"ua", Kbc, {}, NoId, Null>>,
      <<"ua", Kac, {}, 1, Null>>,
      <<"ub", Kac, {}, NoId, Null>> }

\* The read requests of ua: <<query, tags, embedding_status, limit>>
SeqReads ==
    { <<NoQuery, {}, Null, DefaultLimit>>,
      <<NoQuery, {"x"}, Null, DefaultLimit>>,
      <<NoQuery, {}, "completed", DefaultLimit>>,
      <<NoQuery, {}, Null, 1>>,
      <<Kac, {}, Null, DefaultLimit>>,
      <<(<<"c">>), {}, Null, DefaultLimit>>,
      <<(<<"_", "c">>), {}, Null, DefaultLimit>> }

InitSeq == \E c \in {Sqlite, Postgres, PostgresNoKey} : Start(c)

RememberSeq ==
    \E w \in SeqWrites :
        /\ nextId <= MaxSeq
        /\ RememberStart(1, w[1], UserCtx(w[1]), w[2], w[3], Null, Null, w[4], w[5])

RecallSeq ==
    \E r \in SeqReads :
        /\ nRecalls < MaxSeqRecalls
        /\ RecallStart(1, "ua", UserCtx("ua"), r[1], r[2], r[3], r[4], Null, Null)

ForgetSeq == \E id \in Ids : Forget(1, "ua", UserCtx("ua"), id)

PromoteSeq ==
    \E id \in Ids :
        /\ nextId <= MaxSeq
        /\ PromoteMemory(1, "ua", UserCtx("ua"), id, "personal", Null)

NextSeq ==
    \/ RememberSeq
    \/ RememberSupersede(1)
    \/ RememberDedup(1)
    \/ RememberDedupUpdate(1)
    \/ RememberInsert(1)
    \/ RecallSeq
    \/ RecallUpdate(1)
    \/ ForgetSeq
    \/ PromoteSeq

SpecSeq == InitSeq /\ [][NextSeq]_vars

\* --------------------------------------------------------- claims on SpecSeq
\* C1: recall never returns a memory whose superseded_by is non-null, whatever
\* the query, tags, scope, status filter or backend.
C1_RecallSkipsSuperseded ==
    \A p \in Slots :
        calls[p].op = "recall" =>
            \A i \in 1..Len(calls[p].returned) :
                calls[p].returned[i].superseded_by = NoId

\* a query recall answers with a memory while a superseded memory of the
\* caller with the queried content is in the store
C1_Witness ==
    /\ Done(1, "recall") /\ calls[1].input.query = Kac
    /\ Len(calls[1].returned) > 0
    /\ \E id \in Rows :
         /\ memories[id].superseded_by # NoId
         /\ memories[id].user_id = "ua" /\ memories[id].content = Kac

\* cosine similarity of a to q is strictly greater than that of b to q
MoreSimilar(a, b, q) == Dot(a, q) * Norm(b) > Dot(b, q) * Norm(a)

\* cosine similarity of a to q is above 0.90
Above90(a, q) == 10 * Dot(a, q) > 9 * Norm(a) * Norm(q)

\* memory m lies in the effective scope of the remember call c
InScopeOf(m, c) ==
    /\ m.scope = c.scope
    /\ (c.scope = "personal" => m.user_id = c.input.user)
    /\ (c.scope \in {"team", "application"} => m.scope_id = c.scopeId)

\* the remember call in slot p has answered success for a call whose provider
\* call and dedup query succeeded, and f is the memory created just before it
\* by remember
SecondAfterFirst(p, f) ==
    /\ Done(p, "remember") /\ calls[p].result = "success"
    /\ calls[p].dedupRan
    /\ f = calls[p].id - 1 /\ f \in Rows
    /\ memories[f].promoted_from = NoId
    /\ memories[f].embedding # NoVector
    /\ InScopeOf(memories[f], calls[p])

\* C2 as stated: of two remember calls made one after the other in the same
\* effective scope with the provider available and contents more than 0.90
\* similar, the second sets the first memory's superseded_by to its own id.
C2_SecondSupersedesFirst ==
    \A p \in Slots : \A f \in Ids :
        (/\ SecondAfterFirst(p, f)
         /\ Above90(memories[f].embedding, ProviderVector(calls[p].input.content)))
        => memories[f].superseded_by = calls[p].id

\* the memories the dedup query of the answered call c compared: embedded, in
\* the call's scope, and not superseded before the call
ComparedBy(c) ==
    { o \in Rows \ {c.id} :
        /\ InScopeOf(memories[o], c)
        /\ memories[o].embedding # NoVector
        /\ memories[o].superseded_by \in {NoId, c.id} }

\* C2, amended: a remember call whose provider call and dedup query succeed
\* and which names no memory to supersede sets superseded_by, to its own id,
\* on the one memory of its scope that is strictly the most similar to its
\* content, when that similarity is above 0.90; and a recall without filters
\* returns the superseding memory and not the superseded one.
C2_MostSimilarIsSuperseded ==
    /\ \A p \in Slots : \A f \in Ids :
         (/\ Done(p, "remember") /\ calls[p].result = "success"
          /\ calls[p].dedupRan
          /\ f \in ComparedBy(calls[p])
          /\ Above90(memories[f].embedding, ProviderVector(calls[p].input.content))
          /\ \A o \in ComparedBy(calls[p]) \ {f} :
                MoreSimilar(memories[f].embedding, memories[o].embedding,
                            ProviderVector(calls[p].input.content)))
         => /\ memories[f].superseded_by = calls[p].id
            /\ calls[p].mergedFrom = f
    /\ \A p \in Slots : \A f, g \in Rows :
         (/\ calls[p].op = "recall" /\ calls[p].input.query = NoQuery
          /\ calls[p].input.tags = {} /\ calls[p].input.status = Null
          /\ calls[p].input.limit = DefaultLimit
          /\ memories[f].superseded_by = g
          /\ memories[g].superseded_by = NoId
          /\ MayRead(memories[g], calls[p].input.user))
         => /\ g \in RowIds(calls[p].returned)
            /\ f \notin RowIds(calls[p].returned)

\* the second of two similar memories has superseded the first, an older and
\* less similar memory stays
C2_Witness ==
    /\ Done(1, "remember") /\ calls[1].dedupRan
    /\ calls[1].id = 3 /\ calls[1].mergedFrom = 2
    /\ memories[2].superseded_by = 3
    /\ 1 \in Rows /\ memories[1].superseded_by = NoId /\ memories[1].embedding # NoVector
    /\ InScopeOf(memories[1], calls[1])

\* query occurs in text as a contiguous run of characters
IsSubstring(query, text) ==
    \E i \in 0..(Len(text) - Len(query)) :
        \A k \in 1..Len(query) : text[i + k] = query[k]

\* text contains query, letter case ignored
SubstringNoCase(query, text) ==
    \E i \in 0..(Len(text) - Len(query)) :
        \A k \in 1..Len(query) : Lower(text[i + k]) = Lower(query[k])

\* C9: when the backend has no vector capability or the query's embedding
\* cannot be generated, recall with a query returns without error the visible,
\* non-superseded memories whose content contains the query as a substring,
\* newest first.  (Every memory containing the query exactly is returned, and
\* every returned memory contains it at least up to letter case.)
C9_FallbackIsSubstringMatch ==
    \A p \in Slots :
        (/\ calls[p].op = "recall" /\ calls[p].mode = "keyword"
         /\ calls[p].input.tags = {} /\ calls[p].input.status = Null
         /\ calls[p].input.limit = DefaultLimit)
        => LET c == calls[p]
               live == { id \in Rows : /\ MayRead(memories[id], c.input.user)
                                       /\ memories[id].superseded_by = NoId }
           IN  /\ c.result = "success"
               /\ { id \in live : IsSubstring(c.input.query, memories[id].content) }
                     \subseteq RowIds(c.returned)
               /\ RowIds(c.returned)
                     \subseteq { id \in live :
                                   SubstringNoCase(c.input.query, memories[id].content) }
               /\ \A i, j \in 1..Len(c.returned) :
                     i < j => c.returned[i].created_at > c.returned[j].created_at

\* the step in which the promoteMemory call in slot p inserts its copy
PromoteInserts(p) ==
    /\ calls'[p].op = "promote" /\ calls'[p].pc = "done"
    /\ calls'[p].result = "success"
    /\ nextId' = nextId + 1

\* C13: every successful promoteMemory call, also a second one of the same
\* source into the same target scope, creates a new memory under a fresh id
\* with promoted_from equal to the source id and the source's content, tags
\* and classification, and leaves the source row (and every other row) as it
\* was.
C13_PromoteCopiesAndLeavesSource ==
    [][\A p \in Slots :
         PromoteInserts(p) =>
            LET src == calls'[p].input.memory_id
                new == nextId
            IN  /\ src \in Rows /\ new \notin Rows /\ new \in Ids
                /\ memories'[new] # NoRow
                /\ memories'[new].id = new
                /\ memories'[new].promoted_from = src
                /\ memories'[new].content = memories[src].content
                /\ memories'[new].tags = memories[src].tags
                /\ memories'[new].classification = memories[src].classification
                /\ memories'[new].scope = calls'[p].input.target_scope
                /\ calls'[p].memory = memories'[new]
                /\ \A id \in Ids \ {new} : memories'[id] = memories[id]]_vars

\* memory 1 was promoted twice into the same scope: memories 2 and 3 both
\* carry promoted_from 1, its tags and its classification; memory 1 is as created
C13_Witness ==
    /\ Done(1, "promote") /\ calls[1].result = "success"
    /\ {1, 2, 3} \subseteq Rows
    /\ memories[2].promoted_from = 1 /\ memories[3].promoted_from = 1
    /\ memories[2].scope = memories[3].scope
    /\ memories[1].tags = {"x"} /\ memories[1].classification = "tactical"
    /\ memories[2].classification = "tactical" /\ memories[3].classification = "tactical"
    /\ memories[2].tags = {"x"} /\ memories[3].tags = {"x"}
    /\ memories[1].promoted_from = NoId /\ memories[1].recalled_count = 0

\* C14: while a remember call that names a memory it supersedes is running,
\* the only superseded_by that changes is that of the named memory, which
\* was not superseded before and now carries the id of the new memory; no
\* similarity search links any other memory, whether or not the named memory
\* was valid.
C14_OnlyNamedMemoryIsLinked ==
    [][\A p \in Slots :
         (calls[p].op = "remember" /\ InFlight(p) /\ calls[p].input.supersedes # NoId)
         => \A id \in Ids :
               (/\ memories[id] # NoRow /\ memories'[id] # NoRow
                /\ memories'[id].superseded_by # memories[id].superseded_by)
               => /\ id = calls[p].input.supersedes
                  /\ memories[id].superseded_by = NoId
                  /\ memories'[id].superseded_by = calls[p].id]_vars

\* C16: on PostgreSQL without an embedding provider configured, remember does
\* not leave the new memory pending: when the call answers, the stored row and
\* the returned memory have embedding_status failed and the 'queue
\* unavailable' text in embedding_error, and no job was submitted.
C16_NoPipelineMeansFailed ==
    (isPostgres /\ ~cfg.embedUrl) =>
        /\ \A p \in Slots :
              Done(p, "remember") =>
                 /\ calls[p].result = "success"
                 /\ calls[p].memory.embedding_status = "failed"
                 /\ calls[p].memory.embedding_error = QueueUnavailable
                 /\ memories[calls[p].id] = calls[p].memory
                 /\ jobs[calls[p].id] = NoJob
        /\ \A id \in Rows : memories[id].embedding_status # "pending"

\* a remember call has answered on PostgreSQL without a provider
C16_Witness ==
    /\ isPostgres /\ ~cfg.embedUrl
    /\ Done(1, "remember") /\ calls[1].id = 2
    /\ memories[2].embedding_status = "failed"
    /\ memories[2].embedding = NoVector
    /\ 1 \in Rows

\* the caller's own personal memories that are not superseded and contain the
\* query, letter case ignored
OwnMatching(u, query) ==
    { id \in Rows : /\ memories[id].scope = "personal" /\ memories[id].user_id = u
                    /\ memories[id].superseded_by = NoId
                    /\ SubstringNoCase(query, memories[id].content) }

\* C20: on the backend without vector capability a recall with a query
\* returns the caller's stored personal memories whose content contains the
\* query, and nothing else: exactly the visible, non-superseded memories
\* containing the query, newest first, up to the limit.
C20_SqliteRecallIsSubstringSet ==
    \A p \in Slots :
        (/\ calls[p].op = "recall" /\ ~isPostgres
         /\ calls[p].input.query # NoQuery
         /\ calls[p].input.tags = {} /\ calls[p].input.status = Null)
        => LET c == calls[p]
               expected == OwnMatching(c.input.user, c.input.query)
           IN  /\ Len(c.rows) <= c.input.limit
               /\ Cardinality(expected) <= c.input.limit => RowIds(c.rows) = expected
               /\ \A i, j \in 1..Len(c.rows) :
                     i < j => c.rows[i].created_at > c.rows[j].created_at

\* ---- SpecRace: requests overlap.  Each handler runs from one await to the
\* next; the steps of two requests interleave freely.
MaxRace == 3       \* memories created in the overlapping specification

InitRace == \E c \in {Sqlite, Postgres} : Start(c)

\* ua writes the same text, with or without naming memory 1 as replaced
RememberRace ==
    \E p \in Slots : \E supersedes \in {NoId, 1} :
        /\ nextId <= MaxRace
        /\ RememberStart(p, "ua", UserCtx("ua"), Kac, {}, Null, Null, supersedes, Null)

RecallRace ==
    \E p \in Slots :
        RecallStart(p, "ua", UserCtx("ua"), NoQuery, {}, Null, DefaultLimit, Null, Null)

ForgetRace == \E p \in Slots : Forget(p, "ua", UserCtx("ua"), 1)

NextRace ==
    \/ RememberRace
    \/ \E p \in Slots : RememberSupersede(p)
    \/ \E p \in Slots : RememberDedup(p)
    \/ \E p \in Slots : RememberDedupUpdate(p)
    \/ \E p \in Slots : RememberInsert(p)
    \/ RecallRace
    \/ \E p \in Slots : RecallUpdate(p)
    \/ ForgetRace

SpecRace == InitRace /\ [][NextRace]_vars

\* -------------------------------------------------------- claims on SpecRace
\* the step in which the recall in slot p writes the counters and answers
RecallAnswers(p) ==
    calls[p].op = "recall" /\ calls[p].pc = "update" /\ calls'[p].pc = "done"

\* C6 as stated: when a recall answers, the stored recalled_count of every
\* memory it returns is exactly one more than it was when the call read the
\* memory, whatever other calls ran in between.
C6_CountIsOneAboveCallStart ==
    [][\A p \in Slots :
         RecallAnswers(p) =>
            \A i \in 1..Len(calls[p].rows) :
                memories'[calls[p].rows[i].id] # NoRow =>
                    memories'[calls[p].rows[i].id].recalled_count
                        = calls[p].rows[i].recalled_count + 1]_vars

\* C6, amended: the counter update of a recall raises the stored
\* recalled_count of every returned memory still in the store by exactly one
\* over its value just before the update, leaves every other memory's counter
\* alone, and the returned copy carries the value read plus one; overlapping
\* recalls add up.
C6_UpdateAddsOne ==
    [][\A p \in Slots :
         RecallAnswers(p) =>
            /\ \A id \in Ids :
                 memories[id] # NoRow =>
                    /\ memories'[id] # NoRow
                    /\ memories'[id].recalled_count =
                          memories[id].recalled_count
                          + (IF id \in RowIds(calls[p].rows) THEN 1 ELSE 0)
            /\ \A i \in 1..Len(calls[p].rows) :
                 calls'[p].returned[i].recalled_count
                    = calls[p].rows[i].recalled_count + 1]_vars

\* two overlapping recalls returned the same memory: the store counts two, the
\* later answer says one
C6_Witness ==
    \E p \in Slots :
        /\ Done(p, "recall")
        /\ \E i \in 1..Len(calls[p].returned) :
             /\ calls[p].returned[i].recalled_count = 1
             /\ memories[calls[p].returned[i].id] # NoRow
             /\ memories[calls[p].returned[i].id].recalled_count = 2

\* C10: once a memory's superseded_by is non-null no later step changes it to
\* another id or clears it, also when remember calls overlap.
C10_SupersededByWrittenOnce ==
    [][\A id \in Ids :
         (memories[id] # NoRow /\ memories[id].superseded_by # NoId) =>
            \/ memories'[id] = NoRow
            \/ memories'[id].superseded_by = memories[id].superseded_by]_vars

\* ---- SpecEmbed: the embedding pipeline on PostgreSQL with a provider that
\* can fail, behind the Redis queue with its worker or without Redis.
MaxEmbed == 2      \* memories created in the pipeline specification

PostgresQueue == [db |-> "postgres", openaiKey |-> TRUE, embedUrl |-> TRUE,
                  redis |-> TRUE, worker |-> TRUE, providerFails |-> TRUE]

PostgresInProcess == [db |-> "postgres", openaiKey |-> TRUE, embedUrl |-> TRUE,
                      redis |-> FALSE, worker |-> FALSE, providerFails |-> TRUE]

InitEmbed == \E c \in {PostgresQueue, PostgresInProcess} : Start(c)

RememberEmbed ==
    \E content \in {Kac, KAc} :
        /\ nextId <= MaxEmbed
        /\ RememberStart(1, "ua", UserCtx("ua"), content, {}, Null, Null, NoId, Null)

ForgetEmbed == \E id \in Ids : Forget(1, "ua", UserCtx("ua"), id)

QueueWork == \E id \in Ids : QueueAttempt(id)

InProcessWork == \E id \in Ids : InProcessAttempt(id)

NextEmbed ==
    \/ RememberEmbed
    \/ RememberDedup(1)
    \/ RememberDedupUpdate(1)
    \/ RememberInsert(1)
    \/ QueueWork
    \/ InProcessWork
    \/ ForgetEmbed

SpecEmbed == InitEmbed /\ [][NextEmbed]_vars

C8_RememberAlwaysSucceeds ==
    \A p \in Slots :
        (/\ Done(p, "remember")
         /\ validateWritePermission(calls[p].input.user,
                EffectiveScope(calls[p].input.reqScope, calls[p].input.reqScopeId,
                               calls[p].input.ctx).scope,
                EffectiveScope(calls[p].input.reqScope, calls[p].input.reqScopeId,
                               calls[p].input.ctx).scopeId,
                calls[p].input.ctx).valid)
        => /\ calls[p].result = "success"
           /\ calls[p].id \in Rows

\* ---- SpecAuth: who may write where.  Every user, with a personal key, a key
\* bound to one of the user's teams, or no context at all, asks for every scope
\* and scope id; the store is the basic backend, one request at a time.
MaxAuthWrites == 1 \* memories created by remember in the authorization specification
MaxAuth == 2       \* memories created in all in the authorization specification

\* the contexts a request of user u can arrive with
AuthContexts(u) == {NoCtx, UserCtx(u)} \cup { TeamCtx(u, t) : t \in getUserTeamIds(u) }

\* scope values: none, the four scopes, and a value outside the enum
AuthScopes == {Null, "personal", "team", "application", "global", "archive"}

\* scope ids: none, teams, applications, and the id of no application
AuthScopeIds == {Null, "t1", "t3", "a1", "a2", "a9"}

InitAuth == Start(Sqlite)

RememberAuth ==
    \E u \in Users : \E ctx \in AuthContexts(u) :
    \E scope \in AuthScopes : \E scopeId \in AuthScopeIds :
        /\ nextId <= MaxAuthWrites
        /\ RememberStart(1, u, ctx, Kab, {}, scope, scopeId, NoId, Null)

PromoteAuth ==
    \E u \in {"ua", "ub"} : \E ctx \in AuthContexts(u) \ {NoCtx} : \E id \in 1..MaxAuth :
    \E scope \in AuthScopes \ {Null} : \E scopeId \in AuthScopeIds :
        /\ nextId <= MaxAuth
        /\ PromoteMemory(1, u, ctx, id, scope, scopeId)

NextAuth ==
    \/ RememberAuth
    \/ RememberInsert(1)
    \/ PromoteAuth

SpecAuth == InitAuth /\ [][NextAuth]_vars

\* -------------------------------------------------------- claims on SpecAuth
\* the scope a remember call writes into, as the claims word it
ClaimedScope(reqScope, ctx) ==
    IF reqScope # Null THEN reqScope
    ELSE IF ctx.scopeType = "team" THEN "team" ELSE "personal"

\* the team id supplied explicitly or by a team-bound credential
SuppliedTeamId(scopeId, ctx) ==
    IF scopeId # Null THEN scopeId
    ELSE IF ctx.scopeType = "team" THEN ctx.teamId ELSE Null

\* who may write into scope S, as the claim words it
MayWrite(u, S, scopeId, teamId) ==
    \/ S = "personal"
    \/ (S = "team" /\ teamId # Null /\ isTeamMember(u, teamId))
    \/ (S = "application" /\ scopeId # Null /\
          \E a \in Applications :
             /\ a.id = scopeId
             /\ (a.created_by = u \/ (a.team_id # Null /\ isTeamMember(u, a.team_id))))
    \/ (S = "global" /\ isSystemAdmin(u))

\* the remember call in slot p was decided as the claim says
RememberDecidedByRule(p) ==
    LET c == calls[p]
        S == ClaimedScope(c.input.reqScope, c.input.ctx)
    IN  (c.result = "success") <=>
            MayWrite(c.input.user, S, c.input.reqScopeId,
                     SuppliedTeamId(c.input.reqScopeId, c.input.ctx))

\* the promoteMemory call in slot p found its source
PromoteDecided(p) == Done(p, "promote") /\ calls[p].error # "Memory not found"

\* C11 as stated: a write into scope S by remember or promoteMemory is
\* authorized if and only if S is personal; or team with a team id supplied,
\* explicitly or by a team-bound credential, of a team the actor belongs to; or
\* application with the id of an application the actor created or whose team
\* the actor belongs to; or global with a system administrator as actor.
C11_WriteAuthorizedIffRule ==
    \A p \in Slots :
        /\ Done(p, "remember") => RememberDecidedByRule(p)
        /\ PromoteDecided(p) =>
              LET c == calls[p]
              IN  (c.result = "success") <=>
                      MayWrite(c.input.user, c.input.target_scope, c.input.target_scope_id,
                               SuppliedTeamId(c.input.target_scope_id, c.input.ctx))

\* C11, amended: as stated for remember; for promoteMemory the team id of a
\* team target is the explicit target_scope_id only, the credential's team is
\* not used.  A scope outside the four values is rejected by both.
C11_PromoteNeedsExplicitTeam ==
    \A p \in Slots :
        /\ Done(p, "remember") => RememberDecidedByRule(p)
        /\ PromoteDecided(p) =>
              LET c == calls[p]
              IN  (c.result = "success") <=>
                      MayWrite(c.input.user, c.input.target_scope, c.input.target_scope_id,
                               c.input.target_scope_id)
        /\ (Done(p, "remember") \/ PromoteDecided(p)) =>
              (calls[p].result = "success" => memories[nextId - 1] = calls[p].memory)
        /\ (Done(p, "remember") /\ calls[p].input.reqScope = "archive") =>
              calls[p].error = "Invalid scope"

\* ua, with a key bound to t2, promotes a memory to team scope without naming
\* the team and is refused
C11_Witness ==
    /\ Done(1, "promote") /\ calls[1].input.user = "ua"
    /\ calls[1].input.ctx = TeamCtx("ua", "t2")
    /\ calls[1].input.target_scope = "team" /\ calls[1].input.target_scope_id = Null
    /\ calls[1].error = "scope_id (team ID) is required for team scope"
    /\ 1 \in Rows /\ memories[1].scope = "team" /\ memories[1].scope_id = "t2"
    /\ memories[1].author_id = "ua"

\* the remember call in slot p passed the permission check: it holds the
\* scope and scope id it will store, or has stored them
Accepted(p) ==
    /\ calls[p].op = "remember"
    /\ (calls[p].pc = "done" => calls[p].result = "success")

\* C19 as stated: the effective scope of a remember call is the requested
\* scope if one is given; otherwise team, with the credential's team id, when
\* the credential is team-bound; otherwise personal.
C19_ScopeExplicitElseKeyTeam ==
    \A p \in Slots :
        Accepted(p) =>
            LET c == calls[p]
            IN  IF c.input.reqScope # Null THEN c.scope = c.input.reqScope
                ELSE IF c.input.ctx.scopeType = "team"
                     THEN c.scope = "team" /\ c.scopeId = c.input.ctx.teamId
                     ELSE c.scope = "personal"

\* C19, amended: as stated, except that a team-bound credential's default
\* team scope takes the requested scope_id as its team when one is given and
\* the credential's team id only otherwise; the stored row carries the
\* effective scope.
C19_KeyTeamUnlessScopeIdGiven ==
    \A p \in Slots :
        Accepted(p) =>
            LET c == calls[p]
            IN  /\ IF c.input.reqScope # Null THEN c.scope = c.input.reqScope
                   ELSE IF c.input.ctx.scopeType = "team"
                        THEN /\ c.scope = "team"
                             /\ c.scopeId = IF c.input.reqScopeId # Null
                                            THEN c.input.reqScopeId
                                            ELSE c.input.ctx.teamId
                        ELSE c.scope = "personal"
                /\ c.pc = "done" => /\ c.memory.scope = c.scope
                                    /\ memories[c.id].scope = c.scope
                                    /\ memories[c.id].scope_id = c.scopeId

\* ua, with a key bound to t2, stores a memory without naming a scope but
\* with t1 as scope_id: it lands in team t1
C19_Witness ==
    /\ Done(1, "remember") /\ calls[1].result = "success"
    /\ calls[1].input.ctx = TeamCtx("ua", "t2")
    /\ calls[1].input.reqScope = Null /\ calls[1].input.reqScopeId = "t1"
    /\ memories[1].scope = "team" /\ memories[1].scope_id = "t1"

\* ---- SpecBackfill: the embedding pipeline with the backfill script running
\* beside the live requests, the queue worker and the in-process processing.
MaxBackfill == 2         \* memories created in the backfill specification

InitBackfill == \E c \in {PostgresQueue, PostgresInProcess} : Start(c)

RememberBackfill ==
    \E content \in {Kac, KAc} :
        /\ nextId <= MaxBackfill
        /\ RememberStart(1, "ua", UserCtx("ua"), content, {}, Null, Null, NoId, Null)

ForgetBackfill == \E id \in Ids : Forget(1, "ua", UserCtx("ua"), id)

NextBackfill ==
    \/ RememberBackfill
    \/ RememberDedup(1)
    \/ RememberDedupUpdate(1)
    \/ RememberInsert(1)
    \/ QueueWork
    \/ InProcessWork
    \/ BackfillStart
    \/ BackfillSelect
    \/ BackfillMark
    \/ BackfillEmbed
    \/ ForgetBackfill

SpecBackfill == InitBackfill /\ [][NextBackfill]_vars

\* ---------------------------------------------------- claims on SpecBackfill
\* the step is one of the backfill script
BackfillStep == backfill' # backfill

\* C12: embedding_status only moves from pending to completed or from pending
\* to failed; a completed or failed status is changed by no step other than
\* one of a backfill run, under any interleaving of jobs, retries and the
\* in-process processing.
C12_StatusLeavesPendingOnce ==
    [][\A id \in Ids :
         (/\ memories[id] # NoRow /\ memories'[id] # NoRow
          /\ memories'[id].embedding_status # memories[id].embedding_status
          /\ ~BackfillStep)
         => /\ memories[id].embedding_status = "pending"
            /\ memories'[id].embedding_status \in {"completed", "failed"}]_vars

\* the memory the backfill script is working on
BackfillId == backfill.batch[backfill.i].id

\* C17: a backfill run never modifies a memory that already has an embedding;
\* a failure to embed one memory is recorded on that memory (status failed,
\* error set) and the run goes on to the other memories lacking an embedding,
\* oldest first.
C17_BackfillSkipsEmbedded ==
    [][BackfillStep =>
         /\ \A id \in Ids :
               (memories[id] # NoRow /\ memories[id].embedding # NoVector)
                  => memories'[id] = memories[id]
         /\ backfill.pc = "embed" =>
               /\ (BackfillId \in Rows /\ memories'[BackfillId].embedding = NoVector)
                     => /\ memories'[BackfillId].embedding_status = "failed"
                        /\ memories'[BackfillId].embedding_error # Null
               /\ backfill'.pc \in {"mark", "select"}
               /\ backfill'.pc = "mark" =>
                     /\ backfill'.i = backfill.i + 1
                     /\ backfill'.batch = backfill.batch
         /\ backfill.pc = "select" =>
               /\ \A k \in 1..Len(backfill'.batch) :
                     /\ memories[backfill'.batch[k].id].embedding = NoVector
                     /\ \A j \in 1..Len(backfill'.batch) :
                           k < j => memories[backfill'.batch[k].id].created_at
                                      < memories[backfill'.batch[j].id].created_at
               /\ { backfill'.batch[k].id : k \in 1..Len(backfill'.batch) }
                     = LackingEmbedding]_vars

\* ---- SpecDedup: automatic supersession on PostgreSQL with the provider
\* available: similar and less similar contents written one after the other
\* into personal and team scopes.
MaxDedup == 3      \* memories created in the dedup specification

\* The write requests: <<user, content, scope, scope_id>>
DedupWrites ==
    { <<"ua", Kab, Null, Null>>,
      <<"ua", Kac, Null, Null>>,
      <<"ua", Kbc, Null, Null>>,
      <<"ub", Kac, Null, Null>>,
      <<"ua", Kac, "team", "t1">>,
      <<"ua", KAc, "team", "t1">>,
      <<"ua", KAc, "team", "t2">> }

InitDedup == Start(Postgres)

RememberSimilar ==
    \E w \in DedupWrites :
        /\ nextId <= MaxDedup
        /\ RememberStart(1, w[1], UserCtx(w[1]), w[2], {}, w[3], w[4], NoId, Null)

NextDedup ==
    \/ RememberSimilar
    \/ RememberDedup(1)
    \/ RememberDedupUpdate(1)
    \/ RememberInsert(1)

SpecDedup == InitDedup /\ [][NextDedup]_vars

\* ------------------------------------------------------- claims on SpecDedup
\* the memories whose superseded_by the step changes
Relinked ==
    { id \in Ids : /\ memories[id] # NoRow /\ memories'[id] # NoRow
                   /\ memories'[id].superseded_by # memories[id].superseded_by }

\* the memories a remember call c could match: not superseded, embedded, in
\* the call's effective scope
Eligible(c) ==
    { o \in Rows : /\ InScopeOf(memories[o], c)
                   /\ memories[o].superseded_by = NoId
                   /\ memories[o].embedding # NoVector }

\* the memories that carry the id of the answered call c in superseded_by
LinkedTo(c) == { id \in Rows : memories[id].superseded_by = c.id }

\* C15: implicit dedup in a remember call sets superseded_by on at most one
\* memory, and only on one that is not superseded, lies in the effective
\* scope of the write (same scope and scope_id, for personal scope the same
\* owner), has the highest similarity to the new content among such memories
\* and is more than 0.90 similar; a best match of 0.90 or less is left alone.
C15_DedupLinksOnlyTopMatchAbove90 ==
    /\ [][\A p \in Slots :
            (calls[p].op = "remember" /\ InFlight(p)) =>
               LET c == calls[p]
                   q == ProviderVector(c.input.content)
               IN  /\ Cardinality(Relinked) <= 1
                   /\ \A id \in Relinked :
                         /\ id \in Eligible(c)
                         /\ memories'[id].superseded_by = c.id
                         /\ Above90(memories[id].embedding, q)
                         /\ \A o \in Eligible(c) :
                               ~MoreSimilar(memories[o].embedding,
                                            memories[id].embedding, q)]_vars
    /\ [](\A p \in Slots :
            Done(p, "remember") =>
               /\ Cardinality(LinkedTo(calls[p])) <= 1
               /\ calls[p].result = "success" =>
                     LinkedTo(calls[p]) =
                        (IF calls[p].mergedFrom = NoId THEN {} ELSE {calls[p].mergedFrom}))

\* a memory exactly 0.90 similar to the new content was the best match and
\* was left alone, while a memory of another scope is more similar
C15_Witness ==
    /\ Done(1, "remember") /\ calls[1].dedupRan /\ calls[1].id = 3
    /\ calls[1].input.content = Kac /\ calls[1].scope = "personal"
    /\ calls[1].mergedFrom = NoId
    /\ Rows = {1, 2, 3}
    /\ memories[1].content = Kab /\ memories[1].user_id = "ua"
    /\ memories[1].scope = "personal" /\ memories[1].superseded_by = NoId
    /\ CosinePct(memories[1].embedding, memories[3].embedding) = DedupThresholdPct
    /\ memories[2].scope = "team" /\ memories[2].content = KAc
    /\ memories[2].superseded_by = NoId

\* ---- SpecFrame: every operation that writes to the memories table, on
\* PostgreSQL: remember with dedup, recall, promote, forget, the embedding job
\* (Bull or in-process) and the backfill script.
MaxFrame == 2          \* memories created in the frame specification
MaxFrameRecalls == 1   \* recall calls in the frame specification

InitFrame == \E c \in {PostgresQueue, PostgresInProcess} : Start(c)

RememberFrame ==
    /\ nextId <= MaxFrame
    /\ RememberStart(1, "ua", UserCtx("ua"), Kac, {}, Null, Null, NoId, Null)

RecallFrame ==
    /\ nRecalls < MaxFrameRecalls
    /\ RecallStart(1, "ua", UserCtx("ua"), NoQuery, {}, Null, 1, Null, Null)

PromoteFrame ==
    \E id \in Rows :
        /\ nextId <= MaxFrame
        /\ PromoteMemory(1, "ua", UserCtx("ua"), id, "team", "t1")

ForgetFrame == \E id \in Rows : Forget(1, "ua", UserCtx("ua"), id)

NextFrame ==
    \/ RememberFrame
    \/ RememberDedup(1)
    \/ RememberDedupUpdate(1)
    \/ RememberInsert(1)
    \/ RecallFrame
    \/ RecallUpdate(1)
    \/ PromoteFrame
    \/ ForgetFrame
    \/ QueueWork
    \/ InProcessWork
    \/ BackfillStart
    \/ BackfillSelect
    \/ BackfillMark
    \/ BackfillEmbed

SpecFrame == InitFrame /\ [][NextFrame]_vars

\* ------------------------------------------------------- claims on SpecFrame
\* the row without the fields that may change after creation
Frozen(m) ==
    [m EXCEPT !.embedding = NoVector, !.embedding_status = Null,
              !.embedding_error = Null, !.recalled_count = 0,
              !.retrieval_count = 0, !.superseded_by = NoId]

\* C18: once a memory exists, no step of recall, of the embedding job, of the
\* backfill, of another remember or of promoteMemory changes its content,
\* scope, scope_id, author_id, promoted_from or created_at: until the memory
\* is deleted, a step changes nothing of it but the embedding fields, the
\* usage counters and superseded_by.
C18_OnlyMutableFieldsChange ==
    [][\A id \in Ids :
          (memories[id] # NoRow /\ memories'[id] # NoRow) =>
             /\ memories'[id].content = memories[id].content
             /\ memories'[id].scope = memories[id].scope
             /\ memories'[id].scope_id = memories[id].scope_id
             /\ memories'[id].author_id = memories[id].author_id
             /\ memories'[id].promoted_from = memories[id].promoted_from
             /\ memories'[id].created_at = memories[id].created_at
             /\ Frozen(memories'[id]) = Frozen(memories[id])]_vars

\* a memory that was embedded after a backfill run began, returned by a recall
\* and superseded by a later write
C18_Witness ==
    /\ backfill.runs >= 1
    /\ \E id \in Rows :
          /\ memories[id].recalled_count > 0
          /\ memories[id].superseded_by # NoId
          /\ memories[id].embedding_status = "completed"
          /\ memories[id].embedding # NoVector
          /\ memories[id].content = Kac
          /\ memories[id].created_at = id

\* ---- SpecRecall: recall with queries, tag filters and limits over memories
\* with and without an embedding, on SQLite and on PostgreSQL with a provider
\* that can fail and the in-process embedding fallback.
MaxRecallMem == 2      \* memories created in the recall specification
MaxRecallCalls == 1    \* recall calls in the recall specification

\* The write requests of ua: <<content, tags>>
RecallWrites ==
    { <<Kac, {"x"}>>, <<Kac, {}>>, <<Kab, {"x"}>>, <<Kab, {}>> }

InitRecall == \E c \in {Sqlite, PostgresInProcess} : Start(c)

RememberTagged ==
    \E w \in RecallWrites :
        /\ nextId <= MaxRecallMem
        /\ RememberStart(1, "ua", UserCtx("ua"), w[1], w[2], Null, Null, NoId, Null)

RecallTagged ==
    \E q \in {NoQuery, Kac}, t \in {{}, {"x"}}, l \in {1, DefaultLimit} :
        /\ nRecalls < MaxRecallCalls
        /\ RecallStart(1, "ua", UserCtx("ua"), q, t, Null, l, Null, Null)

NextRecall ==
    \/ RememberTagged
    \/ RememberDedup(1)
    \/ RememberDedupUpdate(1)
    \/ RememberInsert(1)
    \/ InProcessWork
    \/ RecallTagged
    \/ RecallUpdate(1)

SpecRecall == InitRecall /\ [][NextRecall]_vars

\* ------------------------------------------------------ claims on SpecRecall
\* the step is the select of a recall call
RecallSelects == nRecalls' = nRecalls + 1

\* the memories a recall with input i has to choose from
Candidates(i) ==
    { id \in Rows : MayRead(memories[id], i.user) /\ memories[id].superseded_by = NoId }

\* 0.7 x cosine + 0.3 x keyword rank, the cosine term zero without a vector
ScoreOf(id, q) ==
    IF memories[id].embedding = NoVector THEN 3 * KeywordRank(memories[id].content, q)
    ELSE 700 * CosinePct(memories[id].embedding, ProviderVector(q))
         + 3 * KeywordRank(memories[id].content, q)

\* o comes before id in the hybrid order
Outranks(o, id, q) ==
    \/ ScoreOf(o, q) > ScoreOf(id, q)
    \/ ScoreOf(o, q) = ScoreOf(id, q) /\ memories[o].created_at > memories[id].created_at

\* C21: in a hybrid recall a visible, non-superseded memory without an
\* embedding is a candidate scored 0.3 x keyword rank: its score is not above
\* the score it would have with an embedding, and it is returned unless as
\* many candidates as the limit come before it in the hybrid order or the tag
\* filter excludes it; it is never left out for lacking the embedding.
C21_UnembeddedIsRankedNotDropped ==
    [][(RecallSelects /\ calls'[1].mode = "hybrid") =>
         LET i == calls'[1].input
         IN  \A id \in Candidates(i) :
               memories[id].embedding = NoVector =>
                 /\ ScoreOf(id, i.query) <= HybridScore(Embedded(memories[id]), i.query)
                 /\ \/ id \in RowIds(calls'[1].rows)
                    \/ i.tags # {} /\ memories[id].tags \cap i.tags = {}
                    \/ Cardinality({ o \in Candidates(i) : Outranks(o, id, i.query) })
                          >= i.limit]_vars

\* a hybrid recall that returned a memory without embedding whose content is
\* the query, after an embedded memory of other content
C21_Witness ==
    /\ calls[1].op = "recall" /\ calls[1].mode = "hybrid"
    /\ Len(calls[1].rows) = 2
    /\ calls[1].rows[1].embedding # NoVector
    /\ calls[1].rows[1].content # calls[1].input.query
    /\ calls[1].rows[2].embedding = NoVector
    /\ calls[1].rows[2].content = calls[1].input.query

\* the memories a recall call c should count: candidates that carry a
\* requested tag and match the query (a hybrid query ranks, it does not filter)
Matching(c) ==
    { id \in Candidates(c.input) :
        /\ c.mode = "keyword" => SubstringNoCase(c.input.query, memories[id].content)
        /\ memories[id].tags \cap c.input.tags # {} }

Min(a, b) == IF a < b THEN a ELSE b

\* C30: a recall with a tag filter and limit L returns min(L, n) memories, n
\* being the number of visible, non-superseded memories that match the query
\* and carry a requested tag.
C30_TaggedRecallFillsLimit ==
    [][(RecallSelects /\ calls'[1].input.tags # {}) =>
         Len(calls'[1].rows) =
            Min(calls'[1].input.limit, Cardinality(Matching(calls'[1])))]_vars

\* ------------------------------------------------------ further claims on Spec
\* call p answers with a returned error in this step
AnswersError(p) ==
    /\ calls'[p] # calls[p]
    /\ calls'[p].pc = "done"
    /\ calls'[p].op \in {"remember", "forget", "promote"}
    /\ calls'[p].result = "error"

\* C22: when remember, forget or promoteMemory returns a validation,
\* permission or not-found error, the call has left the store as it was: the
\* error is the call's first and only step, and that step inserts and deletes
\* no memory row, sets no superseded_by, submits no embedding work and writes
\* no activity record.
C22_ErrorLeavesStoreUnchanged ==
    [][\A p \in Slots :
          AnswersError(p) =>
             /\ ~InFlight(p)
             /\ memories' = memories
             /\ jobs' = jobs
             /\ nextId' = nextId
             /\ ~calls'[p].logged]_vars

\* a promotion of an existing memory to global scope refused for lack of the
\* administrator flag, the store still holding that one memory
C22_Witness ==
    /\ Done(1, "promote") /\ calls[1].result = "error"
    /\ calls[1].error = "Admin access required for global scope"
    /\ ~calls[1].logged
    /\ calls[1].input.memory_id \in Rows
    /\ Cardinality(Rows) = 1

\* C24: for every recall call, whatever scope and scope_id it passes, each
\* returned team memory belongs to a team the caller is a member of and each
\* returned application memory to an application the caller can access.
C24_ExplicitScopeStaysInReach ==
    \A p \in Slots :
       calls[p].op = "recall" =>
          \A k \in 1..Len(calls[p].rows) :
             calls[p].rows[k].scope \in {"team", "application"} =>
                MayRead(calls[p].rows[k], calls[p].input.user)

\* C26: promoteMemory by user U succeeds only if the source is a memory U
\* could obtain through recall: U's own personal memory, a memory of a team or
\* application U belongs to, or a global memory.
C26_PromoteOnlyReadableSource ==
    [][\A p \in Slots :
          (/\ calls'[p] # calls[p]
           /\ calls'[p].op = "promote"
           /\ calls'[p].result = "success") =>
             MayRead(memories[calls'[p].input.memory_id], calls'[p].input.user)]_vars

\* --------------------------------------------------- further claims on SpecSeq
\* C23: in every reachable state, the states inside a remember call and after
\* a forget included, a non-null superseded_by names a memory that exists in
\* the store.
C23_SupersededByNamesExistingMemory ==
    \A id \in Rows :
       memories[id].superseded_by # NoId => memories[id].superseded_by \in Rows

\* user u may write into the scope the memory m lies in
MayWriteScopeOf(m, u) ==
    /\ validateWritePermission(u, m.scope, m.scope_id, NoCtx).valid
    /\ m.scope = "personal" => m.user_id = u

\* C25: a remember call by user U that names supersedes = X changes X's
\* superseded_by only if X lies in a scope U is authorized to write: U's own
\* personal memory, a team or application U belongs to, or global with U an
\* administrator.
C25_SupersedesOnlyWritableMemory ==
    [][\A p \in Slots :
          (calls[p].op = "remember" /\ calls[p].pc = "supersede") =>
             \A x \in Rows :
                (memories'[x] # NoRow
                   /\ memories'[x].superseded_by # memories[x].superseded_by) =>
                   MayWriteScopeOf(memories[x], calls[p].input.user)]_vars

\* ---- SpecBackfillFair: one run of the backfill script beside remember and
\* the in-process embedding fallback, the provider free to fail; the script,
\* once started, keeps taking its next step.
InitBackfillFair == Start(PostgresInProcess)

NextBackfillFair ==
    \/ RememberBackfill
    \/ RememberDedup(1)
    \/ RememberDedupUpdate(1)
    \/ RememberInsert(1)
    \/ InProcessWork
    \/ BackfillStart
    \/ BackfillSelect
    \/ BackfillMark
    \/ BackfillEmbed

\* the script's loop is sequential code whose awaited calls return
BackfillFairness ==
    /\ WF_vars(BackfillSelect)
    /\ WF_vars(BackfillMark)
    /\ WF_vars(BackfillEmbed)

SpecBackfillFair == InitBackfillFair /\ [][NextBackfillFair]_vars /\ BackfillFairness

\* ------------------------------------------------ claims on SpecBackfillFair
\* C27: a backfill run terminates, also when the embedding provider keeps
\* failing for a memory: a run that has started reaches its end.
C27_BackfillRunTerminates ==
    (backfill.pc # "idle") ~> (backfill.pc = "idle")

\* ---------------------------------------------------- further claims on SpecFrame
\* C28: on a vector-capable backend, in every reachable state a memory has
\* embedding_status completed if and only if it has a stored embedding, under
\* any interleaving of remember, the embedding jobs and their failure
\* handlers, backfill and promoteMemory.
C28_CompletedIffEmbedded ==
    \A id \in Rows :
       (memories[id].embedding_status = "completed") <=> (memories[id].embedding # NoVector)

\* ---- SpecEmbedFair: the embedding pipeline without a backfill run: remember
\* and promoteMemory beside the Bull worker and the in-process fallback, which
\* keep running.
PromoteEmbed ==
    \E id \in Rows :
        /\ nextId <= MaxEmbed
        /\ PromoteMemory(1, "ua", UserCtx("ua"), id, "team", "t1")

NextEmbedFair ==
    \/ RememberEmbed
    \/ RememberDedup(1)
    \/ RememberDedupUpdate(1)
    \/ RememberInsert(1)
    \/ PromoteEmbed
    \/ QueueWork
    \/ InProcessWork

\* the worker takes every waiting job and the in-process promise settles
EmbedFairness == WF_vars(QueueWork) /\ WF_vars(InProcessWork)

SpecEmbedFair == InitEmbed /\ [][NextEmbedFair]_vars /\ EmbedFairness

\* --------------------------------------------------- claims on SpecEmbedFair
\* the dispatcher accepted the work of every remember call
DispatcherAccepts ==
    \A p \in Slots : Done(p, "remember") => calls[p].result # "exception"

\* C29: on a vector-capable backend, with the dispatcher accepting and running
\* the submitted work and the provider calls returning, every memory whose
\* embedding_status is pending eventually becomes completed or failed (or is
\* deleted) without a backfill run: no operation leaves a pending memory
\* without embedding work.
C29_PendingEventuallySettles ==
    \A id \in Ids :
       []DispatcherAccepts =>
          ((memories[id] # NoRow /\ memories[id].embedding_status = "pending")
             ~> (memories[id] = NoRow
                   \/ memories[id].embedding_status \in {"completed", "failed"}))

====
